---------------------------- MODULE Spec2Model ----------------------------
(***************************************************************************)
(* The README generator (src/03-readme-generator/readme_gen.py) as a state *)
(* machine: main() scans a directory (get_project_files), detects the      *)
(* project type (detect_project_type), aggregates file content under a     *)
(* character budget (collect_file_content), calls the generation service   *)
(* and asks whether to save.                                               *)
(*                                                                         *)
(* Text is modelled by TLA+ strings, so lengths, slices and concatenations *)
(* are computed on the characters themselves.  The fence character of the  *)
(* rendered sections (a backquote in the source) is written as an          *)
(* apostrophe in the model's string literals; it has the same length.      *)
(* A path is the sequence of its parts, as pathlib's Path.parts gives it.  *)
(***************************************************************************)
EXTENDS Integers, Sequences, FiniteSets, TLC

VARIABLES
    pc,             \* position in the program
    caller,         \* "main" when running under main(), "direct" for a direct call
    hasKey,         \* ANTHROPIC_API_KEY is set
    hasArg,         \* sys.argv holds a directory argument
    root,           \* the resolved root path: [parts, kind]
    tree,           \* the regular files beneath the root (relative parts)
    walk,           \* what root.rglob('*') has still to yield
    enumerated,     \* number of entries rglob has yielded so far
    files,          \* get_project_files: the list being built / the candidates
    raised,         \* the exception in flight or caught ("none" when there is none)
    project_type,   \* detect_project_type's result
    max_chars,      \* collect_file_content: the budget
    sorted_files,   \* collect_file_content: the ranked candidates
    idx,            \* collect_file_content: 1-based position in sorted_files
    text,           \* collect_file_content: the text just read
    content_parts,  \* collect_file_content: the sections appended
    total_chars,    \* collect_file_content: the running total
    files_included, \* collect_file_content: the count of sections appended
    content,        \* collect_file_content's return value
    readLog,        \* history: the reads done, in order: [path, outcome, text]
    apiCalls,       \* number of calls to the generation service
    stdout,         \* what main() printed (tags)
    exit_code,      \* sys.exit's code, -1 while running
    saved,          \* README.md was written
    diff,           \* commit_gen: the staged diff
    message,        \* commit_gen: the generated commit message
    choice,         \* commit_gen prompt_user: the choice last entered, normalised
    lines,          \* commit_gen prompt_user: the lines of the edited message
    result,         \* commit_gen: what prompt_user returned
    final_message,  \* commit_gen: the message handed to create_commit
    commits         \* history: the messages git commit was run with

vars == <<pc, caller, hasKey, hasArg, root, tree, walk, enumerated, files, raised,
          project_type, max_chars, sorted_files, idx, text, content_parts,
          total_chars, files_included, content, readLog, apiCalls, stdout,
          exit_code, saved, diff, message, choice, lines, result, final_message,
          commits>>

\* the variables of the commit-message tool alone
commitVars == <<diff, message, choice, lines, result, final_message, commits>>

\* the variables of the README generator alone
readmeVars == <<caller, hasArg, root, tree, walk, enumerated, files, project_type,
                max_chars, sorted_files, idx, text, content_parts, total_chars,
                files_included, content, readLog, saved>>

-----------------------------------------------------------------------------
(* Bounds of the model *)

\* most regular files in a scanned tree
MaxEntries == 3
\* longest candidate list handed directly to collect_file_content
MaxFiles == 3
\* longest candidate list handed directly to detect_project_type
MaxDetect == 4

-----------------------------------------------------------------------------
(* Module-level registries of readme_gen.py *)

SKIP_DIRS ==
    {".git", "node_modules", "venv", ".venv", "__pycache__",
     ".pytest_cache", ".mypy_cache", "dist", "build", ".eggs",
     "egg-info", ".tox", "htmlcov", ".coverage"}

CODE_EXTENSIONS ==
    {".py", ".js", ".ts", ".jsx", ".tsx", ".go", ".rs", ".java",
     ".rb", ".php", ".c", ".cpp", ".h", ".hpp", ".cs", ".swift"}

CONFIG_FILES ==
    {"pyproject.toml", "setup.py", "setup.cfg", "requirements.txt",
     "package.json", "package-lock.json", "tsconfig.json",
     "go.mod", "go.sum", "Cargo.toml", "Cargo.lock",
     "Makefile", "Dockerfile", "docker-compose.yml", "docker-compose.yaml",
     ".env.example", ".env.sample", "config.yaml", "config.yml",
     "README.md", "README.rst", "README.txt", "LICENSE", "CHANGELOG.md"}

PRIORITY_FILES ==
    <<"README.md", "pyproject.toml", "package.json", "Cargo.toml", "go.mod",
      "setup.py", "requirements.txt", "main.py", "app.py", "index.js",
      "index.ts", "main.go", "lib.rs", "main.rs", "Dockerfile">>

\* the default of collect_file_content's max_chars parameter
DEFAULT_MAX_CHARS == 80000
\* the characters collect_file_content reserves when it truncates
MARKER_RESERVE == 100
\* priority_key's value for a name that is not in PRIORITY_FILES
UNLISTED_KEY == 1000

TRUNCATED_MARKER == "\n[TRUNCATED]"

-----------------------------------------------------------------------------
(* Strings and paths *)

SetMax(S) == CHOOSE m \in S : \A n \in S : n <= m
SetMin(S) == CHOOSE m \in S : \A n \in S : m <= n

CharAt(s, i) == SubSeq(s, i, i)

UPPER == "ABCDEFGHIJKLMNOPQRSTUVWXYZ"
LOWER == "abcdefghijklmnopqrstuvwxyz"

\* str.lower() on one character
LowerChar(c) ==
    IF \E k \in 1..Len(UPPER) : CharAt(UPPER, k) = c
    THEN CharAt(LOWER, CHOOSE k \in 1..Len(UPPER) : CharAt(UPPER, k) = c)
    ELSE c

\* str.lower()
RECURSIVE Lower(_)
Lower(s) ==
    IF Len(s) = 0 THEN ""
    ELSE LowerChar(CharAt(s, 1)) \o Lower(SubSeq(s, 2, Len(s)))

\* Path.name: the final part
Name(path) == path[Len(path)]

\* Path.suffix: from the last dot of the name on, when that dot is neither
\* the first nor the last character of the name; "" otherwise
Suffix(path) ==
    LET name == Name(path)
        dots == {k \in 1..Len(name) : CharAt(name, k) = "."}
    IN  IF dots = {} THEN ""
        ELSE LET j == SetMax(dots)
             IN  IF 1 < j /\ j < Len(name) THEN SubSeq(name, j, Len(name)) ELSE ""

\* text[:n] of Python: a negative n counts from the end
SliceTo(s, n) ==
    IF n >= 0
    THEN SubSeq(s, 1, IF n < Len(s) THEN n ELSE Len(s))
    ELSE SubSeq(s, 1, IF Len(s) + n > 0 THEN Len(s) + n ELSE 0)

\* sep.join(parts)
RECURSIVE Join(_, _)
Join(sep, parts) ==
    IF Len(parts) = 0 THEN ""
    ELSE IF Len(parts) = 1 THEN parts[1]
    ELSE parts[1] \o sep \o Join(sep, Tail(parts))

IsPrefix(p, q) == Len(p) <= Len(q) /\ SubSeq(q, 1, Len(p)) = p

\* a string of n characters
RECURSIVE Fill(_)
Fill(n) ==
    IF n = 0 THEN ""
    ELSE IF n % 2 = 0 THEN LET half == Fill(n \div 2) IN half \o half
    ELSE "x" \o Fill(n - 1)


Range(seq) == {seq[k] : k \in 1..Len(seq)}

\* the sequences of distinct elements of `pool`, of length at most n
DistinctSeqs(pool, n) ==
    UNION {{q \in [1..k -> pool] : \A a, b \in 1..k : a # b => q[a] # q[b]} : k \in 0..n}

-----------------------------------------------------------------------------
(* The file system main() runs against *)

\* The resolved root: a directory, a directory below an ancestor that bears an
\* excluded name, a directory that bears one itself, a regular file, nothing.
RootChoices ==
    {[parts |-> <<"/", "proj">>, kind |-> "dir"],
     [parts |-> <<"/", "build", "proj">>, kind |-> "dir"],
     [parts |-> <<"/", "dist">>, kind |-> "dir"],
     [parts |-> <<"/", "proj", "notes.txt">>, kind |-> "file"],
     [parts |-> <<"/", "nowhere">>, kind |-> "missing"]}

\* Every entry a tree may hold, relative to the root, in the order rglob
\* yields them (directories before their contents).
EntryPool ==
    <<[rel |-> <<"Makefile">>, is_file |-> TRUE],
      [rel |-> <<"main.py">>, is_file |-> TRUE],
      [rel |-> <<"node_modules">>, is_file |-> FALSE],
      [rel |-> <<"node_modules", "lib.js">>, is_file |-> TRUE],
      [rel |-> <<"node_modules", "pkg">>, is_file |-> FALSE],
      [rel |-> <<"node_modules", "pkg", "index.js">>, is_file |-> TRUE],
      [rel |-> <<"notes.txt">>, is_file |-> TRUE],
      [rel |-> <<"pyproject.toml">>, is_file |-> TRUE],
      [rel |-> <<"src">>, is_file |-> FALSE],
      [rel |-> <<"src", "App.JS">>, is_file |-> TRUE],
      [rel |-> <<"src", "build">>, is_file |-> FALSE],
      [rel |-> <<"src", "build", "gen.py">>, is_file |-> TRUE]>>

FilePool == {e.rel : e \in {x \in Range(EntryPool) : x.is_file}}

\* the trees: at most MaxEntries regular files, with the directories they need
Trees == {t \in SUBSET FilePool : Cardinality(t) <= MaxEntries}

\* an entry exists in tree t: a file of t, or a directory above one
Present(e, t) ==
    IF e.is_file THEN e.rel \in t
    ELSE \E f \in t : Len(e.rel) < Len(f) /\ IsPrefix(e.rel, f)

\* root.rglob('*'): every entry beneath the root, as absolute paths
rglob(r, t) ==
    LET here(e) == Present(e, t)
        found == SelectSeq(EntryPool, here)
    IN  [k \in 1..Len(found) |->
            [parts |-> r.parts \o found[k].rel, is_file |-> found[k].is_file]]

-----------------------------------------------------------------------------
(* get_project_files *)

\* root checks that leave out the is_dir test
RootCheck_NoDirTest(r) ==
    IF r.kind = "missing" THEN "FileNotFoundError" ELSE "none"

\* the failure of the root checks, "none" when they pass
RootCheck(r) ==
    IF r.kind = "missing" THEN "FileNotFoundError"
    ELSE IF r.kind # "dir" THEN "ValueError"
    ELSE "none"

\* a scan that tests the parent directory's name alone
InSkippedDir_ParentOnly(parts) ==
    Len(parts) > 1 /\ parts[Len(parts) - 1] \in SKIP_DIRS

\* any(skip_dir in path.parts for skip_dir in SKIP_DIRS)
InSkippedDir(parts) == \E skip_dir \in SKIP_DIRS : skip_dir \in Range(parts)

\* the body of the scan loop decides whether the entry is appended
Selected(path) ==
    IF InSkippedDir(path.parts) THEN FALSE
    ELSE IF ~path.is_file THEN FALSE
    ELSE IF Name(path.parts) \in CONFIG_FILES THEN TRUE
    ELSE Lower(Suffix(path.parts)) \in CODE_EXTENSIONS

-----------------------------------------------------------------------------
(* detect_project_type *)

filenames(fs) == {Name(fs[k]) : k \in 1..Len(fs)}

\* a chain that tests package.json before the Python manifests
ManifestLabel_NodeFirst(fs) ==
    LET names == filenames(fs) IN
    IF "package.json" \in names
    THEN IF \E k \in 1..Len(fs) : Suffix(fs[k]) \in {".ts", ".tsx"}
         THEN "TypeScript/Node.js"
         ELSE "JavaScript/Node.js"
    ELSE IF "pyproject.toml" \in names \/ "setup.py" \in names \/ "requirements.txt" \in names
    THEN "Python"
    ELSE IF "go.mod" \in names THEN "Go"
    ELSE IF "Cargo.toml" \in names THEN "Rust"
    ELSE IF "pom.xml" \in names \/ "build.gradle" \in names THEN "Java"
    ELSE ""

\* a chain that tests go.mod and Cargo.toml before package.json
ManifestLabel_GoRustFirst(fs) ==
    LET names == filenames(fs) IN
    IF "pyproject.toml" \in names \/ "setup.py" \in names \/ "requirements.txt" \in names
    THEN "Python"
    ELSE IF "go.mod" \in names THEN "Go"
    ELSE IF "Cargo.toml" \in names THEN "Rust"
    ELSE IF "package.json" \in names
    THEN IF \E k \in 1..Len(fs) : Suffix(fs[k]) \in {".ts", ".tsx"}
         THEN "TypeScript/Node.js"
         ELSE "JavaScript/Node.js"
    ELSE IF "pom.xml" \in names \/ "build.gradle" \in names THEN "Java"
    ELSE ""

\* the if/elif chain on manifest names; "" when no branch is taken
ManifestLabel(fs) ==
    LET names == filenames(fs) IN
    IF "pyproject.toml" \in names \/ "setup.py" \in names \/ "requirements.txt" \in names
    THEN "Python"
    ELSE IF "package.json" \in names
    THEN IF \E k \in 1..Len(fs) : Suffix(fs[k]) \in {".ts", ".tsx"}
         THEN "TypeScript/Node.js"
         ELSE "JavaScript/Node.js"
    ELSE IF "go.mod" \in names THEN "Go"
    ELSE IF "Cargo.toml" \in names THEN "Rust"
    ELSE IF "pom.xml" \in names \/ "build.gradle" \in names THEN "Java"
    ELSE ""

\* ext_counts[ext] = ext_counts.get(ext, 0) + 1 on a dict kept as the
\* sequence of its items in insertion order
DictIncr(d, ext) ==
    IF \E k \in 1..Len(d) : d[k].key = ext
    THEN [k \in 1..Len(d) |->
            IF d[k].key = ext THEN [key |-> ext, val |-> d[k].val + 1] ELSE d[k]]
    ELSE Append(d, [key |-> ext, val |-> 1])

\* the dict ext_counts after the counting loop over fs
RECURSIVE ext_counts(_)
ext_counts(fs) ==
    IF Len(fs) = 0 THEN <<>>
    ELSE LET before == ext_counts(SubSeq(fs, 1, Len(fs) - 1))
             ext == Lower(Suffix(fs[Len(fs)]))
         IN  IF ext \in CODE_EXTENSIONS THEN DictIncr(before, ext) ELSE before

\* a max that keeps the last key of the greatest value
Dominant_LastMax(d) ==
    LET top == SetMax({d[k].val : k \in 1..Len(d)})
    IN  d[SetMax({k \in 1..Len(d) : d[k].val = top})].key

\* max(ext_counts, key=ext_counts.get): the first key, in iteration order,
\* whose value is the greatest
Dominant(d) ==
    LET top == SetMax({d[k].val : k \in 1..Len(d)})
    IN  d[SetMin({k \in 1..Len(d) : d[k].val = top})].key

ext_to_lang ==
    [e \in {".py", ".js", ".ts", ".go", ".rs", ".java", ".rb", ".php", ".c", ".cpp", ".cs"} |->
        CASE e = ".py" -> "Python"
          [] e = ".js" -> "JavaScript"
          [] e = ".ts" -> "TypeScript"
          [] e = ".go" -> "Go"
          [] e = ".rs" -> "Rust"
          [] e = ".java" -> "Java"
          [] e = ".rb" -> "Ruby"
          [] e = ".php" -> "PHP"
          [] e = ".c" -> "C"
          [] e = ".cpp" -> "C++"
          [] e = ".cs" -> "C#"]

\* ext_to_lang.get(ext, 'Unknown')
LangOf(ext) == IF ext \in DOMAIN ext_to_lang THEN ext_to_lang[ext] ELSE "Unknown"

detect_project_type(fs) ==
    IF ManifestLabel(fs) # "" THEN ManifestLabel(fs)
    ELSE LET counts == ext_counts(fs)
         IN  IF Len(counts) > 0 THEN LangOf(Dominant(counts)) ELSE "Unknown"

-----------------------------------------------------------------------------
(* collect_file_content *)

\* PRIORITY_FILES.index(name), 0-based
IndexIn(seq, x) == SetMin({k \in 1..Len(seq) : seq[k] = x}) - 1

priority_key(f) ==
    IF Name(f) \in Range(PRIORITY_FILES)
    THEN IndexIn(PRIORITY_FILES, Name(f))
    ELSE UNLISTED_KEY

\* an insertion that goes in front of the elements of equal key
InsertByKey_BeforeEqual(s, x) ==
    LET n == Cardinality({k \in 1..Len(s) : priority_key(s[k]) < priority_key(x)})
    IN  SubSeq(s, 1, n) \o <<x>> \o SubSeq(s, n + 1, Len(s))

\* one step of sorted(): x goes behind every element whose key is not
\* greater than its own (s is sorted already)
InsertByKey(s, x) ==
    LET n == Cardinality({k \in 1..Len(s) : priority_key(s[k]) <= priority_key(x)})
    IN  SubSeq(s, 1, n) \o <<x>> \o SubSeq(s, n + 1, Len(s))

\* sorted(files, key=priority_key)
RECURSIVE sorted(_)
sorted(fs) ==
    IF Len(fs) = 0 THEN <<>>
    ELSE InsertByKey(sorted(SubSeq(fs, 1, Len(fs) - 1)), fs[Len(fs)])

\* file_path.relative_to(root) as displayed; file_path.name when the path is
\* not beneath the root (ValueError)
Relative(path, r) ==
    IF Len(r.parts) < Len(path) /\ IsPrefix(r.parts, path)
    THEN Join("/", SubSeq(path, Len(r.parts) + 1, Len(path)))
    ELSE Name(path)

\* the f-string that renders one section: header, fence, body, fence
Section(relative, body) == "### " \o relative \o "\n'''\n" \o body \o "\n'''"

\* the truncated section of the first file
TruncatedSection(relative, t, budget, total) ==
    LET remaining == budget - total - MARKER_RESERVE
        truncated == SliceTo(t, remaining) \o TRUNCATED_MARKER
    IN  Section(relative, truncated)

\* total_chars + len(file_content) > max_chars
Overflows(total, file_content, budget) == total + Len(file_content) > budget

\* an overflow branch that keeps a truncated section whatever came before
NothingIncluded_Always(included) == TRUE

\* if files_included == 0: the overflowing file is the first one kept
NothingIncluded(included) == included = 0

\* an except clause that names the decode error alone
Caught_DecodeOnly(exc) == exc \in {"UnicodeDecodeError"}

\* except (UnicodeDecodeError, PermissionError)
Caught(exc) == exc \in {"UnicodeDecodeError", "PermissionError"}

\* What read_text may do: return a short text, return a long text, or raise.
ReadOutcomes ==
    {[exc |-> "none", text |-> Fill(n)] : n \in {10, 300}}
    \cup {[exc |-> e, text |-> ""] :
            e \in {"UnicodeDecodeError", "PermissionError", "FileNotFoundError"}}

-----------------------------------------------------------------------------
(* Initial states *)

\* the locals of the three functions before they run
Fresh ==
    /\ walk = <<>>
    /\ enumerated = 0
    /\ raised = "none"
    /\ project_type = ""
    /\ sorted_files = <<>>
    /\ idx = 0
    /\ text = ""
    /\ content_parts = <<>>
    /\ total_chars = 0
    /\ files_included = 0
    /\ content = ""
    /\ readLog = <<>>
    /\ apiCalls = 0
    /\ stdout = <<>>
    /\ exit_code = -1
    /\ saved = FALSE
    /\ diff = ""
    /\ message = ""
    /\ choice = ""
    /\ lines = <<>>
    /\ result = ""
    /\ final_message = ""
    /\ commits = <<>>

\* main() started on some environment, argument and tree
Init ==
    /\ pc = "m_key"
    /\ caller = "main"
    /\ hasKey \in BOOLEAN
    /\ hasArg \in BOOLEAN
    /\ root \in RootChoices
    /\ tree \in (IF root.kind = "dir" THEN Trees ELSE {{}})
    /\ files = <<>>
    /\ max_chars = DEFAULT_MAX_CHARS
    /\ Fresh

-----------------------------------------------------------------------------
(* main(), up to the scan *)

Exit(code, tag) ==
    /\ pc' = "exited"
    /\ exit_code' = code
    /\ stdout' = Append(stdout, tag)

MainCheckKey ==
    /\ pc = "m_key"
    /\ UNCHANGED commitVars
    /\ IF ~hasKey
       THEN Exit(1, "Error: ANTHROPIC_API_KEY not set.")
       ELSE /\ pc' = "m_args"
            /\ UNCHANGED <<exit_code, stdout>>
    /\ UNCHANGED <<caller, hasKey, hasArg, root, tree, walk, enumerated, files, raised,
                   project_type, max_chars, sorted_files, idx, text, content_parts,
                   total_chars, files_included, content, readLog, apiCalls, saved>>

MainCheckArgs ==
    /\ pc = "m_args"
    /\ UNCHANGED commitVars
    /\ IF ~hasArg
       THEN Exit(1, "Usage")
       ELSE /\ pc' = "s_check"
            /\ exit_code' = exit_code
            /\ stdout' = Append(stdout, "Scanning")
    /\ UNCHANGED <<caller, hasKey, hasArg, root, tree, walk, enumerated, files, raised,
                   project_type, max_chars, sorted_files, idx, text, content_parts,
                   total_chars, files_included, content, readLog, apiCalls, saved>>

\* get_project_files: the checks of the root, then the start of rglob
ScanCheckRoot ==
    /\ pc = "s_check"
    /\ UNCHANGED commitVars
    /\ raised' = RootCheck(root)
    /\ IF RootCheck(root) # "none"
       THEN pc' = "m_scan_failed" /\ walk' = walk
       ELSE pc' = "s_loop" /\ walk' = rglob(root, tree)
    /\ files' = <<>>
    /\ UNCHANGED <<caller, hasKey, hasArg, root, tree, enumerated,
                   project_type, max_chars, sorted_files, idx, text, content_parts,
                   total_chars, files_included, content, readLog, apiCalls, stdout,
                   exit_code, saved>>

\* get_project_files: one turn of the loop over rglob
ScanStep ==
    /\ pc = "s_loop"
    /\ UNCHANGED commitVars
    /\ walk # <<>>
    /\ LET path == Head(walk)
       IN  files' = IF Selected(path) THEN Append(files, path.parts) ELSE files
    /\ walk' = Tail(walk)
    /\ enumerated' = enumerated + 1
    /\ UNCHANGED <<pc, caller, hasKey, hasArg, root, tree, raised,
                   project_type, max_chars, sorted_files, idx, text, content_parts,
                   total_chars, files_included, content, readLog, apiCalls, stdout,
                   exit_code, saved>>

\* get_project_files: return files
ScanReturn ==
    /\ pc = "s_loop"
    /\ UNCHANGED commitVars
    /\ walk = <<>>
    /\ pc' = "m_files"
    /\ UNCHANGED <<caller, hasKey, hasArg, root, tree, walk, enumerated, files, raised,
                   project_type, max_chars, sorted_files, idx, text, content_parts,
                   total_chars, files_included, content, readLog, apiCalls, stdout,
                   exit_code, saved>>

\* main: except (FileNotFoundError, ValueError) as e: print, sys.exit(1);
\* any other exception leaves main() as a traceback
MainScanError ==
    /\ pc = "m_scan_failed"
    /\ UNCHANGED commitVars
    /\ IF raised \in {"FileNotFoundError", "ValueError"}
       THEN Exit(1, "Error: " \o raised)
       ELSE Exit(1, "Traceback: " \o raised)
    /\ UNCHANGED <<caller, hasKey, hasArg, root, tree, walk, enumerated, files, raised,
                   project_type, max_chars, sorted_files, idx, text, content_parts,
                   total_chars, files_included, content, readLog, apiCalls, saved>>

\* main: if not files: sys.exit(1)
MainCheckFiles ==
    /\ pc = "m_files"
    /\ UNCHANGED commitVars
    /\ IF files = <<>>
       THEN Exit(1, "No relevant files found in directory.")
       ELSE /\ pc' = "d_call"
            /\ UNCHANGED <<exit_code, stdout>>
    /\ UNCHANGED <<caller, hasKey, hasArg, root, tree, walk, enumerated, files, raised,
                   project_type, max_chars, sorted_files, idx, text, content_parts,
                   total_chars, files_included, content, readLog, apiCalls, saved>>

-----------------------------------------------------------------------------
(* detect_project_type and collect_file_content as steps *)

\* where a function returns to: main() goes on, a direct call is done
Return(next) == IF caller = "main" THEN next ELSE "done"

\* project_type = detect_project_type(files)
Detect ==
    /\ pc = "d_call"
    /\ UNCHANGED commitVars
    /\ project_type' = detect_project_type(files)
    /\ pc' = Return("c_sort")
    /\ stdout' = IF caller = "main" THEN Append(stdout, "Reading files") ELSE stdout
    /\ UNCHANGED <<caller, hasKey, hasArg, root, tree, walk, enumerated, files, raised,
                   max_chars, sorted_files, idx, text, content_parts,
                   total_chars, files_included, content, readLog, apiCalls,
                   exit_code, saved>>

\* sorted_files = sorted(files, key=priority_key) and the loop's locals
CollectSort ==
    /\ pc = "c_sort"
    /\ UNCHANGED commitVars
    /\ sorted_files' = sorted(files)
    /\ content_parts' = <<>>
    /\ total_chars' = 0
    /\ files_included' = 0
    /\ idx' = 1
    /\ pc' = "c_loop"
    /\ UNCHANGED <<caller, hasKey, hasArg, root, tree, walk, enumerated, files, raised,
                   project_type, max_chars, text, content, readLog, apiCalls, stdout,
                   exit_code, saved>>

\* the loop takes the next candidate and reads it: the text is kept for the
\* budget test, a caught exception goes on to the next candidate, any other
\* exception leaves the function
CollectRead ==
    /\ pc = "c_loop"
    /\ UNCHANGED commitVars
    /\ idx <= Len(sorted_files)
    /\ \E out \in ReadOutcomes :
        /\ readLog' = Append(readLog, [path |-> sorted_files[idx], exc |-> out.exc,
                                       text |-> out.text])
        /\ IF out.exc = "none"
           THEN /\ text' = out.text
                /\ pc' = "c_check"
                /\ UNCHANGED <<idx, raised, exit_code, stdout>>
           ELSE IF Caught(out.exc)
           THEN /\ idx' = idx + 1
                /\ UNCHANGED <<pc, text, raised, exit_code, stdout>>
           ELSE /\ raised' = out.exc
                /\ UNCHANGED <<idx, text>>
                /\ IF caller = "main"
                   THEN Exit(1, "Traceback: " \o out.exc)
                   ELSE pc' = "raised" /\ UNCHANGED <<exit_code, stdout>>
    /\ UNCHANGED <<caller, hasKey, hasArg, root, tree, walk, enumerated, files,
                   project_type, max_chars, sorted_files, content_parts,
                   total_chars, files_included, content, apiCalls, saved>>

\* the budget test on the section of the text just read
CollectAppend ==
    /\ pc = "c_check"
    /\ UNCHANGED commitVars
    /\ LET relative == Relative(sorted_files[idx], root)
           file_content == Section(relative, text)
       IN  IF Overflows(total_chars, file_content, max_chars)
           THEN /\ IF NothingIncluded(files_included)
                   THEN /\ content_parts' =
                             Append(content_parts,
                                    TruncatedSection(relative, text, max_chars, total_chars))
                        /\ files_included' = files_included + 1
                   ELSE UNCHANGED <<content_parts, files_included>>
                /\ pc' = "c_join"
                /\ UNCHANGED <<total_chars, idx>>
           ELSE /\ content_parts' = Append(content_parts, file_content)
                /\ total_chars' = total_chars + Len(file_content)
                /\ files_included' = files_included + 1
                /\ idx' = idx + 1
                /\ pc' = "c_loop"
    /\ UNCHANGED <<caller, hasKey, hasArg, root, tree, walk, enumerated, files, raised,
                   project_type, max_chars, sorted_files, text, content, readLog,
                   apiCalls, stdout, exit_code, saved>>

\* the loop has run out of candidates
CollectExhausted ==
    /\ pc = "c_loop"
    /\ UNCHANGED commitVars
    /\ idx > Len(sorted_files)
    /\ pc' = "c_join"
    /\ UNCHANGED <<caller, hasKey, hasArg, root, tree, walk, enumerated, files, raised,
                   project_type, max_chars, sorted_files, idx, text, content_parts,
                   total_chars, files_included, content, readLog, apiCalls, stdout,
                   exit_code, saved>>

\* return "\n\n".join(content_parts)
CollectReturn ==
    /\ pc = "c_join"
    /\ UNCHANGED commitVars
    /\ content' = Join("\n\n", content_parts)
    /\ pc' = Return("m_generate")
    /\ UNCHANGED <<caller, hasKey, hasArg, root, tree, walk, enumerated, files, raised,
                   project_type, max_chars, sorted_files, idx, text, content_parts,
                   total_chars, files_included, readLog, apiCalls, stdout, exit_code,
                   saved>>

-----------------------------------------------------------------------------
(* main(), after the aggregation *)

\* readme = generate_readme(...): the service answers or raises APIError
MainGenerate ==
    /\ pc = "m_generate"
    /\ UNCHANGED commitVars
    /\ apiCalls' = apiCalls + 1
    /\ \E answered \in BOOLEAN :
        IF answered
        THEN /\ pc' = "m_save"
             /\ stdout' = stdout \o <<"Generating README", "Generated README.md">>
             /\ UNCHANGED <<exit_code, raised>>
        ELSE /\ raised' = "APIError"
             /\ pc' = "exited"
             /\ exit_code' = 1
             /\ stdout' = stdout \o <<"Generating README", "API Error">>
    /\ UNCHANGED <<caller, hasKey, hasArg, root, tree, walk, enumerated, files,
                   project_type, max_chars, sorted_files, idx, text, content_parts,
                   total_chars, files_included, content, readLog, saved>>

\* save = input(...).lower().strip(); the file is written on 'y' only
MainSave ==
    /\ pc = "m_save"
    /\ UNCHANGED commitVars
    /\ \E save \in {"y", "n", ""} :
        /\ saved' = (save = "y")
        /\ Exit(0, IF save = "y" THEN "Saved" ELSE "Not saved.")
    /\ UNCHANGED <<caller, hasKey, hasArg, root, tree, walk, enumerated, files, raised,
                   project_type, max_chars, sorted_files, idx, text, content_parts,
                   total_chars, files_included, content, readLog, apiCalls>>

-----------------------------------------------------------------------------
(* Specifications *)

\* the whole program
Next ==
    \/ MainCheckKey
    \/ MainCheckArgs
    \/ ScanCheckRoot
    \/ ScanStep
    \/ ScanReturn
    \/ MainScanError
    \/ MainCheckFiles
    \/ Detect
    \/ CollectSort
    \/ CollectRead
    \/ CollectAppend
    \/ CollectExhausted
    \/ CollectReturn
    \/ MainGenerate
    \/ MainSave

Spec == Init /\ [][Next]_vars

\* the candidate lists a direct call of detect_project_type is given
DetectPool ==
    {<<"pyproject.toml">>, <<"setup.py">>, <<"requirements.txt">>,
     <<"package.json">>, <<"go.mod">>, <<"Cargo.toml">>, <<"pom.xml">>,
     <<"a.py">>, <<"lib", "b.py">>, <<"c.js">>, <<"D.JS">>, <<"e.ts">>,
     <<"f.swift">>}

\* the environment main() would have given, for a direct call
DirectCall ==
    /\ caller = "direct"
    /\ hasKey = TRUE
    /\ hasArg = TRUE
    /\ root = [parts |-> <<"/", "proj">>, kind |-> "dir"]
    /\ tree = {}
    /\ Fresh

\* detect_project_type called on any candidate list
InitDetect ==
    /\ pc = "d_call"
    /\ files \in DistinctSeqs(DetectPool, MaxDetect)
    /\ max_chars = DEFAULT_MAX_CHARS
    /\ DirectCall

NextDetect == Detect

SpecDetect == InitDetect /\ [][NextDetect]_vars

\* the candidates a direct call of collect_file_content is given: unlisted
\* names, listed names, one listed name twice, a path outside the root
CollectPool ==
    {<<"/", "proj", "a.py">>, <<"/", "proj", "main.py">>, <<"/", "proj", "README.md">>,
     <<"/", "proj", "src", "main.py">>, <<"/", "other", "b.js">>}

\* the budgets of a direct call: below the reserve, at it, above it, ample
Budgets == {1, 60, 100, 130, DEFAULT_MAX_CHARS}

\* collect_file_content called on any candidate list and budget
InitCollect ==
    /\ pc = "c_sort"
    /\ files \in DistinctSeqs(CollectPool, MaxFiles)
    /\ max_chars \in Budgets
    /\ DirectCall

NextCollect ==
    \/ CollectSort
    \/ CollectRead
    \/ CollectAppend
    \/ CollectExhausted
    \/ CollectReturn

SpecCollect == InitCollect /\ [][NextCollect]_vars

-----------------------------------------------------------------------------
(* Properties of get_project_files and main(), under Spec *)

PathSegments(path) == Range(path)

\* C2: no path get_project_files returns has a segment whose name is in
\* SKIP_DIRS, however deep below the excluded directory the file lies and
\* whether or not its own name or extension is recognized.
C2_NoExcludedSegment ==
    \A k \in 1..Len(files) : PathSegments(files[k]) \cap SKIP_DIRS = {}

\* C2's case: a scan has returned files from a tree that also holds a .js
\* file two levels below node_modules and a .py file below src/build.
C2_Witness ==
    /\ pc = "m_files"
    /\ files # <<>>
    /\ <<"node_modules", "pkg", "index.js">> \in tree
    /\ <<"src", "build", "gen.py">> \in tree

\* the entries of the tree that the scan is to return: regular files with a
\* registered name or a registered extension (lower-cased) and no excluded
\* directory name among the segments beneath the root
Qualifies(e) ==
    /\ e.is_file
    /\ \/ Name(e.rel) \in CONFIG_FILES
       \/ Lower(Suffix(e.rel)) \in CODE_EXTENSIONS
    /\ \A k \in 1..(Len(e.rel) - 1) : e.rel[k] \notin SKIP_DIRS

ExpectedFiles ==
    LET wanted(e) == Present(e, tree) /\ Qualifies(e)
        found == SelectSeq(EntryPool, wanted)
    IN  [k \in 1..Len(found) |-> root.parts \o found[k].rel]

\* C9: get_project_files returns exactly the qualifying regular files beneath
\* the root, in traversal order, whatever the root's own ancestors are called.
C9_ExactlyQualifying == pc = "m_files" => files = ExpectedFiles

\* C7 as stated: a missing root fails with the not-found error, a root that
\* is not a directory with NotADirectoryError, nothing is enumerated or read,
\* the service is not called, and main() reports the error and exits.
C7_AsStated ==
    /\ (root.kind # "dir") => (enumerated = 0 /\ readLog = <<>> /\ apiCalls = 0)
    /\ (pc \in {"m_scan_failed", "exited"} /\ hasKey /\ hasArg /\ root.kind = "missing")
          => raised = "FileNotFoundError"
    /\ (pc \in {"m_scan_failed", "exited"} /\ hasKey /\ hasArg /\ root.kind = "file")
          => raised = "NotADirectoryError"

\* C7 amended: a missing root fails with FileNotFoundError, a root that is
\* not a directory with ValueError; in both cases nothing beneath the root is
\* enumerated or read, the service is not called, and main() prints the
\* error and exits with status 1.
C7_RootErrors ==
    /\ (root.kind # "dir") =>
          /\ enumerated = 0 /\ walk = <<>> /\ files = <<>>
          /\ readLog = <<>> /\ apiCalls = 0 /\ ~saved
          /\ pc \in {"m_key", "m_args", "s_check", "m_scan_failed", "exited"}
    /\ (pc \in {"m_scan_failed", "exited"} /\ hasKey /\ hasArg /\ root.kind = "missing")
          => raised = "FileNotFoundError"
    /\ (pc \in {"m_scan_failed", "exited"} /\ hasKey /\ hasArg /\ root.kind = "file")
          => raised = "ValueError"
    /\ (pc = "exited" /\ hasKey /\ hasArg /\ root.kind # "dir")
          => /\ exit_code = 1
             /\ stdout = <<"Scanning", "Error: " \o raised>>

\* C7's case: main() has exited on a root that is a regular file.
C7_Witness ==
    /\ pc = "exited"
    /\ root.kind = "file"
    /\ raised = "ValueError"
    /\ exit_code = 1

-----------------------------------------------------------------------------
(* Properties of collect_file_content, under SpecCollect *)

Readable(e) == e.exc = "none"

\* the reads that returned a text, in order
ReadableLog == SelectSeq(readLog, Readable)

\* the untruncated section of a read
FullSection(e) == Section(Relative(e.path, root), e.text)

\* the length of the untruncated sections of the first k reads of R
RECURSIVE SumLen(_, _)
SumLen(R, k) == IF k = 0 THEN 0 ELSE SumLen(R, k - 1) + Len(FullSection(R[k]))

\* the closing of a truncated section: the marker, then the fence
MarkerEnd == TRUNCATED_MARKER \o "\n'''"

HasMarker(part) ==
    /\ Len(part) >= Len(MarkerEnd)
    /\ SubSeq(part, Len(part) - Len(MarkerEnd) + 1, Len(part)) = MarkerEnd

\* the last section appended is not the whole section of its file
WasTruncated ==
    /\ content_parts # <<>>
    /\ content_parts[Len(content_parts)] # FullSection(ReadableLog[Len(content_parts)])

\* C1: the text collect_file_content returns, separators included, is no
\* longer than the budget, or than the budget plus the reserved 100
\* characters when the first readable candidate was truncated.
C1_WithinBudget ==
    pc = "done" =>
        Len(content) <= (IF WasTruncated THEN max_chars + MARKER_RESERVE ELSE max_chars)

\* C3: an overflowing candidate is kept, truncated and closed by the marker,
\* when nothing was appended before it, and dropped whole otherwise; either
\* way the loop stops there, so no later candidate is read or appears, and a
\* section with the marker is the only section.
C3_AsymmetricOverflow ==
    pc \in {"c_join", "done"} =>
        LET R == ReadableLog
            n == Len(R)
            over == {k \in 1..n : SumLen(R, k) > max_chars}
        IN  /\ \A k \in 1..Len(readLog) : readLog[k].path = sorted_files[k]
            /\ IF over = {}
               THEN content_parts = [k \in 1..n |-> FullSection(R[k])]
               ELSE LET o == SetMin(over) IN
                    /\ n = o
                    /\ Readable(readLog[Len(readLog)])
                    /\ IF o = 1
                       THEN /\ Len(content_parts) = 1
                            /\ HasMarker(content_parts[1])
                            /\ \E m \in 0..Len(R[1].text) :
                                 content_parts[1] =
                                     Section(Relative(R[1].path, root),
                                             SubSeq(R[1].text, 1, m) \o TRUNCATED_MARKER)
                       ELSE content_parts = [k \in 1..(o - 1) |-> FullSection(R[k])]
            /\ \A k \in 1..Len(content_parts) :
                 HasMarker(content_parts[k]) => Len(content_parts) = 1
            /\ pc = "done" => content = Join("\n\n", content_parts)

\* C3's case: a section was appended, the next readable candidate overflowed
\* and was dropped, and a candidate ranked after it was never read.
C3_Witness ==
    /\ pc = "done"
    /\ Len(content_parts) >= 1
    /\ Len(ReadableLog) = Len(content_parts) + 1
    /\ ~WasTruncated
    /\ Len(readLog) < Len(sorted_files)

Listed(f) == \E k \in 1..Len(PRIORITY_FILES) : PRIORITY_FILES[k] = Name(f)

ListIndex(f) == CHOOSE k \in 1..Len(PRIORITY_FILES) : PRIORITY_FILES[k] = Name(f)

\* the position of candidate f in the input sequence
InputPos(f) == CHOOSE k \in 1..Len(files) : files[k] = f

\* C4: the ranking is a permutation of the input in which listed names come
\* before unlisted ones, listed names follow PRIORITY_FILES, and candidates
\* of equal key keep their input order.
C4_StableRanking ==
    pc # "c_sort" =>
        /\ Len(sorted_files) = Len(files)
        /\ Range(sorted_files) = Range(files)
        /\ \A p, q \in 1..Len(sorted_files) :
             p < q =>
                LET a == sorted_files[p]
                    b == sorted_files[q]
                IN  /\ Listed(b) => Listed(a)
                    /\ (Listed(a) /\ Listed(b)) => ListIndex(a) <= ListIndex(b)
                    /\ ((~Listed(a) /\ ~Listed(b)) \/ Name(a) = Name(b))
                          => InputPos(a) < InputPos(b)

\* C4's case: the ranking moved candidates, and it holds two candidates of
\* one listed name and an unlisted one.
C4_Witness ==
    /\ pc = "done"
    /\ sorted_files # files
    /\ \E p, q \in 1..Len(sorted_files) :
         p < q /\ Listed(sorted_files[p]) /\ Name(sorted_files[p]) = Name(sorted_files[q])
    /\ \E p \in 1..Len(sorted_files) : ~Listed(sorted_files[p])

SkippedErrors == {"UnicodeDecodeError", "PermissionError"}

\* a read has just failed with a decode error or a permission denial
ReadFailed ==
    /\ Len(readLog') = Len(readLog) + 1
    /\ readLog'[Len(readLog')].exc \in SkippedErrors

\* C6, the step: a read that fails with a decode error or a permission
\* denial appends nothing, changes neither count, raises nothing and moves
\* the loop on to the next candidate.
C6_FailedReadStep ==
    ReadFailed =>
        /\ content_parts' = content_parts
        /\ total_chars' = total_chars
        /\ files_included' = files_included
        /\ content' = content
        /\ raised' = "none"
        /\ pc' = "c_loop"
        /\ idx' = idx + 1

\* C6, the outcome: the function is left by an exception only on another
\* error; the loop ends only when the candidates are exhausted or a readable
\* one overflows; and the first readable candidate is truncated as the first
\* file however many failed reads came before it.
C6_LoopGoesOn ==
    /\ pc = "raised" =>
          /\ raised \notin SkippedErrors
          /\ readLog[Len(readLog)].exc = raised
    /\ pc \in {"c_join", "done"} =>
          LET R == ReadableLog IN
          /\ \/ Len(readLog) = Len(sorted_files)
             \/ /\ Readable(readLog[Len(readLog)])
                /\ SumLen(R, Len(R)) > max_chars
          /\ (Len(R) >= 1 /\ SumLen(R, 1) > max_chars) =>
                (Len(content_parts) = 1 /\ HasMarker(content_parts[1]))

\* C6: a candidate whose read fails with a decode error or a permission
\* denial adds nothing, raises nothing and does not stop the loop.
C6_FailedReadSkipped == [][C6_FailedReadStep]_vars /\ []C6_LoopGoesOn

\* C6's case: the first candidate's read was denied, and the next candidate
\* was read, overflowed and was kept truncated as the first file.
C6_Witness ==
    /\ pc = "done"
    /\ Len(readLog) >= 2
    /\ readLog[1].exc = "PermissionError"
    /\ readLog[2].exc = "none"
    /\ Len(content_parts) = 1
    /\ HasMarker(content_parts[1])

-----------------------------------------------------------------------------
(* Properties of detect_project_type, under SpecDetect *)

PythonManifests == {"pyproject.toml", "setup.py", "requirements.txt"}

CandidateNames == {Name(files[k]) : k \in 1..Len(files)}

\* the extensions of the candidates, lower-cased, in sequence order
Exts == [k \in 1..Len(files) |-> Lower(Suffix(files[k]))]

\* how many of the first k entries of xs are e
CountUpTo(xs, e, k) == Cardinality({j \in 1..k : xs[j] = e})

CountIn(xs, e) == CountUpTo(xs, e, Len(xs))

CountOf(e) == CountIn(Exts, e)

\* C5: a candidate list that holds a Python manifest is labelled Python,
\* whatever other manifests and extensions it holds.
C5_PythonManifestWins ==
    (pc = "done" /\ CandidateNames \cap PythonManifests # {}) => project_type = "Python"

\* C5's case: a Python manifest beside package.json and two .js files.
C5_Witness ==
    /\ pc = "done"
    /\ CandidateNames \cap PythonManifests # {}
    /\ "package.json" \in CandidateNames
    /\ CountOf(".js") = 2
    /\ CountOf(".py") = 0

\* C8 as stated: go.mod or Cargo.toml is decided before package.json, so a
\* list holding one of them beside package.json (and no Python manifest) is
\* labelled Go or Rust, not Node.js.
C8_AsStated ==
    (/\ pc = "done"
     /\ CandidateNames \cap PythonManifests = {}
     /\ "package.json" \in CandidateNames
     /\ CandidateNames \cap {"go.mod", "Cargo.toml"} # {})
    => \/ project_type = "Go" /\ "go.mod" \in CandidateNames
       \/ project_type = "Rust" /\ "Cargo.toml" \in CandidateNames

\* some candidate's suffix is .ts or .tsx as written (not lower-cased)
HasTypedSuffix == \E k \in 1..Len(files) : Suffix(files[k]) \in {".ts", ".tsx"}

\* C8 amended: the manifests are decided in the order Python manifest,
\* package.json, go.mod, Cargo.toml: a list holding package.json and no
\* Python manifest is labelled Node.js even beside go.mod or Cargo.toml, and
\* Go or Rust is the label only when package.json is absent.
C8_ManifestPrecedence ==
    pc = "done" =>
        LET names == CandidateNames
            py == names \cap PythonManifests # {}
            node == "package.json" \in names
            go == "go.mod" \in names
            rust == "Cargo.toml" \in names
        IN  /\ py => project_type = "Python"
            /\ (~py /\ node) =>
                  project_type = (IF HasTypedSuffix THEN "TypeScript/Node.js"
                                  ELSE "JavaScript/Node.js")
            /\ (~py /\ ~node /\ go) => project_type = "Go"
            /\ (~py /\ ~node /\ ~go /\ rust) => project_type = "Rust"

\* C8's case: go.mod and Cargo.toml beside package.json, labelled Node.js.
C8_Witness ==
    /\ pc = "done"
    /\ {"go.mod", "Cargo.toml", "package.json"} \subseteq CandidateNames
    /\ project_type = "JavaScript/Node.js"

\* no branch of the manifest chain applies to the candidates
NoManifestRule ==
    CandidateNames \cap (PythonManifests \cup
        {"package.json", "go.mod", "Cargo.toml", "pom.xml", "build.gradle"}) = {}

\* the recognized extensions that occur in xs
SeenExts(xs) == Range(xs) \cap CODE_EXTENSIONS

\* those of the greatest count
TopExts(xs) ==
    LET seen == SeenExts(xs)
        count == [e \in seen |-> CountIn(xs, e)]
    IN  {e \in seen : \A o \in seen : count[o] <= count[e]}

\* the position at which extension e reaches count c in xs
ReachedAt(xs, e, c) == SetMin({k \in 1..Len(xs) : CountUpTo(xs, e, k) = c})

\* the extension of greatest count whose count got there first
FirstToReachTop(xs) ==
    LET top == TopExts(xs)
        at == [e \in top |-> ReachedAt(xs, e, CountIn(xs, e))]
    IN  CHOOSE e \in top : \A o \in top : at[e] <= at[o]

\* the extension of greatest count that occurs first in the sequence
FirstSeenTop(xs) ==
    LET top == TopExts(xs)
        at == [e \in top |-> ReachedAt(xs, e, 1)]
    IN  CHOOSE e \in top : \A o \in top : at[e] <= at[o]

\* C10 as stated: without a manifest rule the label is that of the most
\* frequent recognized extension, a tie going to the extension whose count
\* reached the maximum first.
C10_AsStated ==
    (pc = "done" /\ NoManifestRule) =>
        LET xs == Exts
        IN  SeenExts(xs) # {} => project_type = LangOf(FirstToReachTop(xs))

\* C10 amended: without a manifest rule the label is ext_to_lang's entry for
\* the most frequent recognized extension ('Unknown' where it has none), a
\* tie going to the extension that occurs first in the sequence.
C10_FirstSeenWinsTie ==
    (pc = "done" /\ NoManifestRule) =>
        LET xs == Exts
        IN  SeenExts(xs) # {} => project_type = LangOf(FirstSeenTop(xs))

\* C10's case: .py and .js tie at two, .py occurs first and .js reaches two
\* first; the label is Python.
C10_Witness ==
    /\ pc = "done"
    /\ NoManifestRule
    /\ TopExts(Exts) = {".py", ".js"}
    /\ CountOf(".py") = 2
    /\ ReachedAt(Exts, ".py", 1) < ReachedAt(Exts, ".js", 1)
    /\ ReachedAt(Exts, ".js", 2) < ReachedAt(Exts, ".py", 2)
    /\ project_type = "Python"

\* C11: without a manifest rule, the label is 'Unknown' exactly when no
\* candidate carries an extension of CODE_EXTENSIONS; with at least one such
\* candidate the label is a language.
C11_UnknownIffNoRecognized ==
    (pc = "done" /\ NoManifestRule) =>
        (project_type = "Unknown" <=> SeenExts(Exts) = {})

-----------------------------------------------------------------------------
(* commit_gen.py: the commit-message tool *)

\* the most lines an edited message is given before END
MaxLines == 2

\* the most invalid choices entered at one prompt
MaxInvalid == 2

\* the characters str.strip() removes, as far as a typed line can hold them
WHITESPACE == {" ", "\t"}

\* str.lstrip()
RECURSIVE LStrip(_)
LStrip(s) ==
    IF Len(s) > 0 /\ CharAt(s, 1) \in WHITESPACE
    THEN LStrip(SubSeq(s, 2, Len(s)))
    ELSE s

\* str.rstrip()
RECURSIVE RStrip(_)
RStrip(s) ==
    IF Len(s) > 0 /\ CharAt(s, Len(s)) \in WHITESPACE
    THEN RStrip(SubSeq(s, 1, Len(s) - 1))
    ELSE s

\* str.strip()
Strip(s) == LStrip(RStrip(s))

\* what git diff --cached can print
DiffPool == {"", "diff --git a/parser.py b/parser.py"}

\* what the API call can return as the message text
MessagePool == {"", "Add parser", "Fix typo in README"}

\* what the user can type at the [y]/[n]/[e] prompt
ChoicePool == {"y", "Y", " yes", "n", "N ", "e", " E", "", "q", "END"}

\* what the user can type as one line of an edited message
LinePool == {"y", "n", "Rework parser", "", "END"}

\* the prompts left unanswered by an invalid choice so far
InvalidCount ==
    Cardinality({k \in 1..Len(stdout) : stdout[k] = "Invalid choice."})

\* main() of commit_gen.py started on some environment
InitCommit ==
    /\ pc = "g_key"
    /\ caller = "main"
    /\ hasKey \in BOOLEAN
    /\ hasArg = FALSE
    /\ root = [parts |-> <<"/", "proj">>, kind |-> "dir"]
    /\ tree = {}
    /\ files = <<>>
    /\ max_chars = DEFAULT_MAX_CHARS
    /\ Fresh

\* main(): the API key is required
CommitCheckKey ==
    /\ pc = "g_key"
    /\ IF ~hasKey
       THEN Exit(1, "Error: ANTHROPIC_API_KEY not set.")
       ELSE /\ pc' = "g_diff"
            /\ UNCHANGED <<exit_code, stdout>>
    /\ UNCHANGED <<hasKey, raised, apiCalls>>
    /\ UNCHANGED commitVars
    /\ UNCHANGED readmeVars

\* main(): get_staged_diff(), and the exit on an empty diff
CommitGetDiff ==
    /\ pc = "g_diff"
    /\ \E d \in DiffPool :
        /\ diff' = d
        /\ IF d = ""
           THEN Exit(1, "No staged changes found.")
           ELSE /\ pc' = "g_generate"
                /\ UNCHANGED <<exit_code, stdout>>
    /\ UNCHANGED <<hasKey, raised, apiCalls>>
    /\ UNCHANGED <<message, choice, lines, result, final_message, commits>>
    /\ UNCHANGED readmeVars

\* main(): generate_commit_message(diff), the exit on an API error and the
\* exit on an empty message
CommitGenerate ==
    /\ pc = "g_generate"
    /\ apiCalls' = apiCalls + 1
    /\ \/ /\ raised' = "APIError"
          /\ Exit(1, "API Error")
          /\ UNCHANGED message
       \/ \E m \in MessagePool :
            /\ message' = m
            /\ IF m = ""
               THEN Exit(1, "Failed to generate commit message.")
               ELSE /\ pc' = "g_prompt"
                    /\ stdout' = Append(stdout, "Generated commit message")
                    /\ UNCHANGED exit_code
            /\ UNCHANGED raised
    /\ UNCHANGED <<hasKey, diff, choice, lines, result, final_message, commits>>
    /\ UNCHANGED readmeVars

\* prompt_user(): one answer at the prompt
PromptChoice ==
    /\ pc = "g_prompt"
    /\ \E typed \in ChoicePool :
        LET c == Strip(Lower(typed)) IN
        /\ choice' = c
        /\ IF c = "y"
           THEN /\ result' = "y"
                /\ pc' = "g_decide"
                /\ UNCHANGED <<lines, stdout>>
           ELSE IF c = "n"
           THEN /\ result' = "n"
                /\ pc' = "g_decide"
                /\ UNCHANGED <<lines, stdout>>
           ELSE IF c = "e"
           THEN /\ lines' = <<>>
                /\ pc' = "g_edit"
                /\ stdout' = Append(stdout, "Enter your edited message")
                /\ UNCHANGED result
           ELSE /\ InvalidCount < MaxInvalid
                /\ stdout' = Append(stdout, "Invalid choice.")
                /\ UNCHANGED <<pc, lines, result>>
    /\ UNCHANGED <<hasKey, raised, apiCalls, exit_code>>
    /\ UNCHANGED <<diff, message, final_message, commits>>
    /\ UNCHANGED readmeVars

\* prompt_user(): one line of the edited message, or END
PromptLine ==
    /\ pc = "g_edit"
    /\ \E line \in LinePool :
        IF line = "END"
        THEN /\ result' = Join("\n", lines)
             /\ pc' = "g_decide"
             /\ UNCHANGED lines
        ELSE /\ Len(lines) < MaxLines
             /\ lines' = Append(lines, line)
             /\ UNCHANGED <<pc, result>>
    /\ UNCHANGED <<hasKey, raised, apiCalls, exit_code, stdout>>
    /\ UNCHANGED <<diff, message, choice, final_message, commits>>
    /\ UNCHANGED readmeVars

\* main(): what is done with prompt_user's result
CommitDecide ==
    /\ pc = "g_decide"
    /\ IF result = "n"
       THEN /\ Exit(0, "Commit cancelled.")
            /\ UNCHANGED final_message
       ELSE /\ final_message' = (IF result = "y" THEN message ELSE result)
            /\ pc' = "g_commit"
            /\ UNCHANGED <<exit_code, stdout>>
    /\ UNCHANGED <<hasKey, raised, apiCalls>>
    /\ UNCHANGED <<diff, message, choice, lines, result, commits>>
    /\ UNCHANGED readmeVars

\* main(): create_commit(final_message) and the report of its outcome
create_commit ==
    /\ pc = "g_commit"
    /\ commits' = Append(commits, final_message)
    /\ \E ok \in BOOLEAN :
        IF ok
        THEN Exit(0, "Commit created successfully!")
        ELSE Exit(1, "Failed to create commit.")
    /\ UNCHANGED <<hasKey, raised, apiCalls>>
    /\ UNCHANGED <<diff, message, choice, lines, result, final_message>>
    /\ UNCHANGED readmeVars

NextCommit ==
    \/ CommitCheckKey
    \/ CommitGetDiff
    \/ CommitGenerate
    \/ PromptChoice
    \/ PromptLine
    \/ CommitDecide
    \/ create_commit

SpecCommit == InitCommit /\ [][NextCommit]_vars

-----------------------------------------------------------------------------
(* C12: what is committed after each answer at the prompt *)

\* the text the user typed before END
Edited == Join("\n", lines)

\* C12: a commit is attempted only after the answer 'y' or a finished edit and
\* never after 'n'; after 'y' the generated message is committed unchanged;
\* after an edit exactly the text typed before END is committed, whatever
\* that text is.
C12_CommitsWhatWasChosen ==
    /\ commits # <<>> => (pc = "exited" /\ choice \in {"y", "e"})
    /\ choice = "n" => commits = <<>>
    /\ (pc = "exited" /\ choice = "y") => commits = <<message>>
    /\ (pc = "exited" /\ choice = "e") => commits = <<Edited>>

=============================================================================
